---- MODULE Spec2Model ----
(***************************************************************************)
(* Model of the auto newsletter bot (src/index.js): the two history files, *)
(* the in-memory log buffer, the startup code, the cron trigger and the    *)
(* run cycle (runBot) split at its await points.                           *)
(***************************************************************************)
EXTENDS Integers, Sequences, FiniteSets, TLC

VARIABLES
    env,                \* which required environment variables are set (lines 13-16)
    proc,               \* "starting" | "running" | "exited"
    logs,               \* let logs = []            (line 25)
    nextRunTime,        \* let nextRunTime = null   (line 26)
    currentGeneration,  \* let currentGeneration = "" (line 27)
    headlineFile,       \* history.json on disk
    dashboardFile,      \* dashboard_history.json on disk
    cycles,             \* one record per runBot() invocation, in start order
    now,                \* wall clock, in minutes
    lastTick,           \* minute of the last cron firing (or of registration)
    listening,          \* the app.listen callback has run
    cronScheduled,      \* cron.schedule has registered the task (line 316)
    nextId,             \* next fresh story number the generator hands out
    recorded,           \* history variable: every entry ever passed to log()
    allTitles,          \* history variable: every title batch handed to saveHeadlines, concatenated
    allItems,           \* history variable: every item batch handed to saveHeadlines, concatenated
    batchEnds,          \* history variable: Len(allItems) at the start and after each cycle's append
    response            \* body of the last GET /api/data response

vars == <<env, proc, logs, nextRunTime, currentGeneration, headlineFile,
          dashboardFile, cycles, now, lastTick, listening, cronScheduled,
          nextId, recorded, allTitles, allItems, batchEnds, response>>

----------------------------------------------------------------------------
(* Program constants *)

HeadlineCap == 50
DashboardCap == 20
LogCap == 100
IntervalMinutes == 10

(* Bounds of the model *)

MaxTicks == 1
MaxLogTicks == 22
MaxInFlight == 2
MaxAppended == 120
MaxTextLen == 4
MaxItems == 3

\* the clock advances in half intervals
TimeStep == IntervalMinutes \div 2

StartTimes == {0, TimeStep}

----------------------------------------------------------------------------
(* Values *)

\* JavaScript null / undefined, kept apart from story numbers (which are >= 1)
JsonNull == 0 - 1
Undefined == 0 - 2

\* nextRunTime = null
NullTime == 0 - 1

RequiredVars == {"OPENROUTER_API_KEY", "EMAIL_USER", "EMAIL_PASS", "RECEIVER_EMAIL"}

\* !OPENROUTER_API_KEY || !EMAIL_USER || !EMAIL_PASS || !RECEIVER_EMAIL
ConfigMissingForgetsReceiver(e) ==
    \/ ~e["OPENROUTER_API_KEY"]
    \/ ~e["EMAIL_USER"]
    \/ ~e["EMAIL_PASS"]

ConfigMissing(e) ==
    \/ ~e["OPENROUTER_API_KEY"]
    \/ ~e["EMAIL_USER"]
    \/ ~e["EMAIL_PASS"]
    \/ ~e["RECEIVER_EMAIL"]

\* One record of the `news` array. kind "null" is a JSON null in the array;
\* an absent field is Undefined.
MkItem(shape, id) ==
    CASE shape = "good"     -> [kind |-> "object", title |-> id, summary |-> id, type |-> "good"]
      [] shape = "shocking" -> [kind |-> "object", title |-> id, summary |-> id, type |-> "shocking"]
      [] shape = "untitled" -> [kind |-> "object", title |-> Undefined, summary |-> id, type |-> "good"]
      [] shape = "neutral"  -> [kind |-> "object", title |-> id, summary |-> id, type |-> "neutral"]
      [] OTHER              -> [kind |-> "null", title |-> Undefined, summary |-> Undefined, type |-> "none"]

MkBatch(shapes, firstId) == [i \in 1..Len(shapes) |-> MkItem(shapes[i], firstId + i - 1)]

\* JSON.stringify followed by JSON.parse: inside an array undefined becomes null
JsonRoundTripTitle(t) == IF t = Undefined THEN JsonNull ELSE t

JsonRoundTripTitles(ts) == [i \in 1..Len(ts) |-> JsonRoundTripTitle(ts[i])]

\* items came out of JSON.parse, so writing and reading them back keeps them
JsonRoundTripItems(items) == [i \in 1..Len(items) |-> items[i]]

\* Array.prototype.slice(start)
Slice(s, start) == SubSeq(s, start + 1, Len(s))

----------------------------------------------------------------------------
(* Logger *)

Entry(message, type, timestamp) ==
    [message |-> message, type |-> type, timestamp |-> timestamp]

LogShiftsNothing(buf, e) == Append(buf, e)

\* logs.push(...); if (logs.length > 100) logs.shift();
Log(buf, e) ==
    LET pushed == Append(buf, e)
    IN  IF Len(pushed) > LogCap THEN Tail(pushed) ELSE pushed

RECURSIVE LogAll(_, _)
LogAll(buf, es) ==
    IF es = <<>> THEN buf ELSE LogAll(Log(buf, Head(es)), Tail(es))

Stamp(msgs, t) == [i \in 1..Len(msgs) |-> Entry(msgs[i][1], msgs[i][2], t)]

----------------------------------------------------------------------------
(* History files *)

MissingFile == [kind |-> "missing", data |-> <<>>]
UnparsableFile == [kind |-> "unparsable", data |-> <<>>]
NonArrayFile == [kind |-> "nonarray", data |-> <<>>]
ArrayFile(d) == [kind |-> "array", data |-> d]

GetPastHeadlinesForgets(f) == [kind |-> "array", data |-> <<>>, msgs |-> <<>>]

\* getPastHeadlines(): the value returned and what it logs
GetPastHeadlines(f) ==
    CASE f.kind = "missing"    -> [kind |-> "array", data |-> <<>>, msgs |-> <<>>]
      [] f.kind = "unparsable" -> [kind |-> "array", data |-> <<>>,
                                   msgs |-> << <<"Error reading history file", "error">> >>]
      [] OTHER                 -> [kind |-> f.kind, data |-> f.data, msgs |-> <<>>]

\* fs.writeFileSync: "ok", or it throws leaving the file as it was
\* ("fail_untouched") or cut short ("fail_truncated")
WriteOutcomes == {"ok", "fail_untouched", "fail_truncated"}

WriteFile(f, d, outcome) ==
    CASE outcome = "ok"             -> ArrayFile(d)
      [] outcome = "fail_truncated" -> UnparsableFile
      [] OTHER                      -> f

TrimKeepsOldest(s, cap) == IF Len(s) > cap THEN SubSeq(s, 1, cap) ELSE s

\* if (history.length > cap) history = history.slice(history.length - cap)
Trim(s, cap) == IF Len(s) > cap THEN Slice(s, Len(s) - cap) ELSE s

SaveError == << <<"Error saving history", "error">> >>

SaveHeadlinesOneCap(hf, df, newsItems, w1, w2) ==
    LET past == GetPastHeadlines(hf)
        newTitles == [i \in 1..Len(newsItems) |-> newsItems[i].title]
        history == Trim(past.data \o newTitles, HeadlineCap)
        dashboardHistory == Trim(df.data \o newsItems, HeadlineCap)
    IN  [headline |-> WriteFile(hf, JsonRoundTripTitles(history), w1),
         dashboard |-> WriteFile(df, JsonRoundTripItems(dashboardHistory), w2),
         msgs |-> past.msgs]

\* saveHeadlines(newsItems) with the two writes ending in w1 and w2:
\* the files afterwards and what was logged
SaveHeadlines(hf, df, newsItems, w1, w2) ==
    LET past == GetPastHeadlines(hf)
        hasNull == \E i \in 1..Len(newsItems) : newsItems[i].kind = "null"
        newTitles == [i \in 1..Len(newsItems) |-> newsItems[i].title]
        history == Trim(past.data \o newTitles, HeadlineCap)
        hf2 == WriteFile(hf, JsonRoundTripTitles(history), w1)
        dashboardHistory == Trim(df.data \o newsItems, DashboardCap)
        df2 == WriteFile(df, JsonRoundTripItems(dashboardHistory), w2)
    IN  IF hasNull \/ past.kind = "nonarray"
        THEN [headline |-> hf, dashboard |-> df, msgs |-> past.msgs \o SaveError]
        ELSE IF w1 # "ok"
        THEN [headline |-> hf2, dashboard |-> df, msgs |-> past.msgs \o SaveError]
        ELSE IF df.kind \in {"unparsable", "nonarray"}
        THEN [headline |-> hf2, dashboard |-> df, msgs |-> past.msgs \o SaveError]
        ELSE IF w2 # "ok"
        THEN [headline |-> hf2, dashboard |-> df2, msgs |-> past.msgs \o SaveError]
        ELSE [headline |-> hf2, dashboard |-> df2, msgs |-> past.msgs]

----------------------------------------------------------------------------
(* Generator responses and extraction *)

\* shapes of the `news` array a response can carry
BatchShapes ==
    { <<>>,
      <<"good", "good", "shocking">>,
      <<"shocking", "untitled">>,
      <<"good", "null">> }

Response(kind, text, shapes) == [kind |-> kind, text |-> text, shapes |-> shapes]

\* axios.post rejects without a response, rejects with a non-2xx response,
\* or resolves with a body that has no choices
FailureResponses == {Response(k, "", <<>>) : k \in {"network", "non2xx", "nochoices"}}

\* a body whose content has no JSON object, parses without a `news` array,
\* or parses with one
ContentResponses ==
    {Response("content", t, <<>>) : t \in {"prose", "nonews"}}
        \cup {Response("content", "news", s) : s \in BatchShapes}

Responses == FailureResponses \cup ContentResponses

\* the generator is unreachable
DownResponses == {Response("network", "", <<>>)}

\* the generator is unreachable, or answers with a well-formed batch
PlainResponses ==
    DownResponses \cup {Response("content", "news", <<"good", "good", "shocking">>)}

\* fetchNews after the await: the outcome, the value returned (items, when
\* the outcome is "news"), currentGeneration and what was logged
FetchNewsReturn(resp, firstId, generation) ==
    CASE resp.kind = "network" ->
            [outcome |-> "callerror", items |-> <<>>, generation |-> generation,
             msgs |-> << <<"Error fetching news", "error">> >>]
      [] resp.kind = "non2xx" ->
            [outcome |-> "callerror", items |-> <<>>, generation |-> generation,
             msgs |-> << <<"Error fetching news", "error">>, <<"API Status", "error">> >>]
      [] resp.kind = "nochoices" ->
            [outcome |-> "callerror", items |-> <<>>, generation |-> generation,
             msgs |-> << <<"Error fetching news", "error">> >>]
      [] resp.text = "news" ->
            [outcome |-> "news", items |-> MkBatch(resp.shapes, firstId), generation |-> resp.text,
             msgs |-> << <<"AI Generation Complete.", "info">> >>]
      [] OTHER ->
            [outcome |-> "extracterror", items |-> <<>>, generation |-> resp.text,
             msgs |-> << <<"AI Generation Complete.", "info">>,
                         <<"JSON Parse Error. Raw Output:", "error">> >>]

----------------------------------------------------------------------------
(* Extraction of the news array from the generator's text *)

\* The text is a sequence of lexical pieces: a brace, a member of an object
\* (`"news": [item]`, `"news": []`, `"news": "text"`, any other member),
\* words that are not JSON, the literal `null`, and the fence delimiters
\* ```json and ```. White space is left out: trim() and JSON.parse drop it.
TextTokens ==
    {"{", "}", "news_array", "news_empty", "news_text", "member", "prose", "null",
     "fence_json", "fence"}

NewsTokens == {"news_array", "news_empty", "news_text"}

Texts(maxLen) == UNION {[1..n -> TextTokens] : n \in 0..maxLen}

\* String.prototype.indexOf / lastIndexOf, 0-based, -1 when absent
IndexOf(s, ch) ==
    IF \E i \in 1..Len(s) : s[i] = ch
    THEN (CHOOSE i \in 1..Len(s) : s[i] = ch /\ \A j \in 1..(i - 1) : s[j] # ch) - 1
    ELSE 0 - 1

LastIndexOf(s, ch) ==
    IF \E i \in 1..Len(s) : s[i] = ch
    THEN (CHOOSE i \in 1..Len(s) : s[i] = ch /\ \A j \in (i + 1)..Len(s) : s[j] # ch) - 1
    ELSE 0 - 1

\* String.prototype.substring(start, end): the two are swapped when start > end
Substring(s, start, end) ==
    LET lo == IF start <= end THEN start ELSE end
        hi == IF start <= end THEN end ELSE start
    IN  SubSeq(s, lo + 1, hi)

\* .replace(/```json/g, '').replace(/```/g, '')
RemoveFences(s) ==
    SelectSeq(SelectSeq(s, LAMBDA ch : ch # "fence_json"), LAMBDA ch : ch # "fence")

\* the array a `"news": [...]` member carries
NewsValue(tok, firstId) == IF tok = "news_array" THEN MkBatch(<<"good">>, firstId) ELSE <<>>

\* JSON.parse(s): an object (members between one pair of braces; of repeated
\* keys the last wins), the value null, or a SyntaxError
JsonParse(s, firstId) ==
    IF s = <<"null">>
    THEN [kind |-> "null", news |-> "absent", value |-> <<>>]
    ELSE IF /\ Len(s) >= 2
            /\ s[1] = "{"
            /\ s[Len(s)] = "}"
            /\ \A i \in 2..(Len(s) - 1) : s[i] \in NewsTokens \cup {"member"}
    THEN LET at == {i \in 2..(Len(s) - 1) : s[i] \in NewsTokens}
             last == CHOOSE i \in at : \A j \in at : j <= i
         IN  IF at = {}
             THEN [kind |-> "object", news |-> "absent", value |-> <<>>]
             ELSE [kind |-> "object",
                   news |-> IF s[last] = "news_text" THEN "text" ELSE "array",
                   value |-> NewsValue(s[last], firstId)]
    ELSE [kind |-> "error", news |-> "absent", value |-> <<>>]

ExtractNewsFirstClose(fullContent, firstId) ==
    LET stripped == RemoveFences(fullContent)
        firstOpen == IndexOf(stripped, "{")
        lastClose == IndexOf(stripped, "}")
        jsonString == IF firstOpen # 0 - 1 /\ lastClose # 0 - 1
                      THEN Substring(stripped, firstOpen, lastClose + 1)
                      ELSE stripped
        parsed == JsonParse(jsonString, firstId)
    IN  IF parsed.kind = "object" /\ parsed.news = "array"
        THEN [outcome |-> "news", items |-> parsed.value, msgs |-> <<>>]
        ELSE [outcome |-> "extracterror", items |-> <<>>,
              msgs |-> << <<"JSON Parse Error. Raw Output:", "error">> >>]

\* lines 176-200: the value fetchNews returns for the content fullContent
\* (outcome "extracterror" is `return null`) and what it logs. A SyntaxError,
\* the TypeError of reading .news of null and the thrown "Missing 'news'
\* array" all land in the inner catch.
ExtractNews(fullContent, firstId) ==
    LET stripped == RemoveFences(fullContent)
        firstOpen == IndexOf(stripped, "{")
        lastClose == LastIndexOf(stripped, "}")
        jsonString == IF firstOpen # 0 - 1 /\ lastClose # 0 - 1
                      THEN Substring(stripped, firstOpen, lastClose + 1)
                      ELSE stripped
        parsed == JsonParse(jsonString, firstId)
    IN  IF parsed.kind = "object" /\ parsed.news = "array"
        THEN [outcome |-> "news", items |-> parsed.value, msgs |-> <<>>]
        ELSE [outcome |-> "extracterror", items |-> <<>>,
              msgs |-> << <<"JSON Parse Error. Raw Output:", "error">> >>]

----------------------------------------------------------------------------
(* HTML generator *)

NoHtml ==
    [ok |-> FALSE, goodSection |-> FALSE, good |-> <<>>,
     shockingSection |-> FALSE, shocking |-> <<>>]

\* createCard(item, color): the card shows the title and the summary
CreateCard(item, color) == [title |-> item.title, summary |-> item.summary, color |-> color]

Cards(items, color) == [i \in 1..Len(items) |-> CreateCard(items[i], color)]

GenerateHtmlHeadsEverySection(newsItems) ==
    LET goodNews == SelectSeq(newsItems, LAMBDA item : item.type = "good")
        shockingNews == SelectSeq(newsItems, LAMBDA item : item.type = "shocking")
    IN  IF \E i \in 1..Len(newsItems) : newsItems[i].kind = "null"
        THEN NoHtml
        ELSE [ok |-> TRUE,
              goodSection |-> TRUE,
              good |-> Cards(goodNews, "#27ae60"),
              shockingSection |-> TRUE,
              shocking |-> Cards(shockingNews, "#c0392b")]

\* generateHtml(newsItems): the document's two sections, each with its
\* heading only when it has cards. item.type on a null item throws a
\* TypeError (ok is FALSE).
GenerateHtml(newsItems) ==
    LET goodNews == SelectSeq(newsItems, LAMBDA item : item.type = "good")
        shockingNews == SelectSeq(newsItems, LAMBDA item : item.type = "shocking")
    IN  IF \E i \in 1..Len(newsItems) : newsItems[i].kind = "null"
        THEN NoHtml
        ELSE [ok |-> TRUE,
              goodSection |-> Len(goodNews) > 0,
              good |-> Cards(goodNews, "#27ae60"),
              shockingSection |-> Len(shockingNews) > 0,
              shocking |-> Cards(shockingNews, "#c0392b")]

----------------------------------------------------------------------------
(* Run cycle *)

\* Node runs each callback (module top level, cron firing, I/O completion)
\* together with the promise continuations it makes runnable before it
\* takes the next callback, so a step of the model is one such callback.
\* The program state a callback works on:
St ==
    [proc |-> proc, cronScheduled |-> cronScheduled, logs |-> logs, recorded |-> recorded, nextRunTime |-> nextRunTime,
     currentGeneration |-> currentGeneration, headlineFile |-> headlineFile,
     dashboardFile |-> dashboardFile, cycles |-> cycles, nextId |-> nextId,
     allTitles |-> allTitles, allItems |-> allItems, batchEnds |-> batchEnds]

Commit(st) ==
    /\ proc' = st.proc
    /\ cronScheduled' = st.cronScheduled
    /\ logs' = st.logs
    /\ recorded' = st.recorded
    /\ nextRunTime' = st.nextRunTime
    /\ currentGeneration' = st.currentGeneration
    /\ headlineFile' = st.headlineFile
    /\ dashboardFile' = st.dashboardFile
    /\ cycles' = st.cycles
    /\ nextId' = st.nextId
    /\ allTitles' = st.allTitles
    /\ allItems' = st.allItems
    /\ batchEnds' = st.batchEnds

\* startedAt, endedAt and busyAtStart are history fields: when runBot was
\* called, when it settled, and how many earlier calls were then unsettled
Cycle(pc, hint, outcome, items, html, mail, persisted, startedAt, busyAtStart) ==
    [pc |-> pc, hint |-> hint, outcome |-> outcome, items |-> items,
     html |-> html, mail |-> mail, persisted |-> persisted,
     startedAt |-> startedAt, endedAt |-> NullTime, busyAtStart |-> busyAtStart]

InFlight == {c \in 1..Len(cycles) : cycles[c].pc \notin {"done", "crashed"}}

\* log(message, type) for each of msgs, at minute t
Record(st, msgs, t) ==
    [st EXCEPT !.logs = LogAll(st.logs, Stamp(msgs, t)),
               !.recorded = st.recorded \o Stamp(msgs, t)]

FinishMessages == << <<"Routine finished. Waiting for next schedule...", "info">> >>

NextRunKeepsOld(st, t) == st.nextRunTime

\* new Date(now.getTime() + 10 * 60000)
NextRun(st, t) == t + IntervalMinutes

\* lines 309-312
RunBotFinish(st, c, t) ==
    Record([st EXCEPT !.nextRunTime = NextRun(st, t),
                      !.cycles[c].pc = "done",
                      !.cycles[c].endedAt = t],
           FinishMessages, t)

HasNewsIgnoresLength(outcome, newsItems) == outcome = "news"

\* if (newsItems && newsItems.length > 0)
HasNews(outcome, newsItems) == outcome = "news" /\ Len(newsItems) > 0

\* runBot after `await fetchNews`: lines 300-302 up to the await in
\* sendEmail, or lines 305-312. A throw in generateHtml rejects the promise
\* runBot returned, which nothing handles: the process ends or goes on,
\* depending on the runtime's unhandled-rejection mode (fatal).
RunBotAfterFetch(st, c, fatal, t) ==
    LET cy == st.cycles[c]
        html == GenerateHtml(cy.items)
    IN  IF HasNews(cy.outcome, cy.items)
        THEN IF html.ok
             THEN Record([st EXCEPT !.cycles[c].pc = "sending",
                                    !.cycles[c].html = html,
                                    !.cycles[c].mail = "pending"],
                         << <<"Sending email...", "info">> >>, t)
             ELSE [st EXCEPT !.cycles[c].pc = "crashed",
                             !.cycles[c].endedAt = t,
                             !.proc = IF fatal THEN "exited" ELSE st.proc]
        ELSE RunBotFinish(Record(st, << <<"No valid news found or API error.", "info">> >>, t),
                          c, t)

\* runBot() up to its first await: lines 294-298 and fetchNews lines 119-125.
\* pastHeadlines.join throws on a value that is not an array; fetchNews
\* catches it and returns null without calling the generator.
RunBotStart(st, prefix, t) ==
    LET past == GetPastHeadlines(st.headlineFile)
        joinThrows == past.kind = "nonarray"
        c == Len(st.cycles) + 1
        busy == Cardinality({d \in 1..Len(st.cycles) :
                                st.cycles[d].pc \notin {"done", "crashed"}})
        msgs == prefix
                  \o << <<"----------", "info">>, <<"Bot Routine Started", "info">> >>
                  \o past.msgs
                  \o << <<"Fetching latest news", "info">> >>
                  \o (IF joinThrows THEN << <<"Error fetching news", "error">> >> ELSE <<>>)
        started == Record([st EXCEPT
                             !.cycles = Append(st.cycles,
                                 Cycle("fetching", past.data,
                                       IF joinThrows THEN "hinterror" ELSE "pending",
                                       <<>>, NoHtml, "none", FALSE, t, busy)),
                             !.currentGeneration = "thinking"],
                          msgs, t)
    IN  IF joinThrows THEN RunBotAfterFetch(started, c, FALSE, t) ELSE started

\* the axios.post promise settles and fetchNews runs to its return
FetchNewsResume(st, c, resp, t) ==
    LET r == FetchNewsReturn(resp, st.nextId, st.currentGeneration)
    IN  Record([st EXCEPT !.cycles[c].outcome = r.outcome,
                          !.cycles[c].items = r.items,
                          !.currentGeneration = r.generation,
                          !.nextId = st.nextId + Len(r.items)],
               r.msgs, t)

\* the transporter.sendMail promise settles and sendEmail returns
SendEmailResume(st, c, delivered, t) ==
    Record([st EXCEPT !.cycles[c].mail = IF delivered THEN "delivered" ELSE "failed"],
           IF delivered
           THEN << <<"Email sent successfully!", "success">> >>
           ELSE << <<"Error sending email", "error">> >>,
           t)

RunBotAfterSendStale(st, c, w1, w2, t) ==
    LET items == st.cycles[c].items
        saved == SaveHeadlines(ArrayFile(st.cycles[c].hint), st.dashboardFile, items, w1, w2)
        after == [st EXCEPT !.headlineFile = saved.headline,
                            !.dashboardFile = saved.dashboard,
                            !.cycles[c].persisted = TRUE,
                            !.allTitles = st.allTitles \o [i \in 1..Len(items) |-> items[i].title],
                            !.allItems = st.allItems \o items,
                            !.batchEnds = Append(st.batchEnds, Len(st.allItems) + Len(items))]
    IN  RunBotFinish(Record(after,
                            saved.msgs \o << <<"Saved new headlines to history.", "success">> >>,
                            t),
                     c, t)

RunBotAfterSendAborts(st, c, w1, w2, t) ==
    LET items == st.cycles[c].items
        saved == SaveHeadlines(st.headlineFile, st.dashboardFile, items, w1, w2)
        after == [st EXCEPT !.headlineFile = saved.headline,
                            !.dashboardFile = saved.dashboard,
                            !.cycles[c].persisted = TRUE,
                            !.allTitles = st.allTitles \o [i \in 1..Len(items) |-> items[i].title],
                            !.allItems = st.allItems \o items,
                            !.batchEnds = Append(st.batchEnds, Len(st.allItems) + Len(items))]
    IN  IF w1 = "ok" /\ w2 = "ok"
        THEN RunBotFinish(Record(after,
                                 saved.msgs \o << <<"Saved new headlines to history.", "success">> >>,
                                 t),
                          c, t)
        ELSE [after EXCEPT !.cycles[c].pc = "crashed", !.cycles[c].endedAt = t]

\* runBot after `await sendEmail`: lines 303-312
RunBotAfterSend(st, c, w1, w2, t) ==
    LET items == st.cycles[c].items
        saved == SaveHeadlines(st.headlineFile, st.dashboardFile, items, w1, w2)
        after == [st EXCEPT !.headlineFile = saved.headline,
                            !.dashboardFile = saved.dashboard,
                            !.cycles[c].persisted = TRUE,
                            !.allTitles = st.allTitles \o [i \in 1..Len(items) |-> items[i].title],
                            !.allItems = st.allItems \o items,
                            !.batchEnds = Append(st.batchEnds, Len(st.allItems) + Len(items))]
    IN  RunBotFinish(Record(after,
                            saved.msgs \o << <<"Saved new headlines to history.", "success">> >>,
                            t),
                     c, t)

StartMessages ==
    << <<"Using Gmail Service", "info">>,
       <<"Auto Newsletter Bot is running", "info">>,
       <<"Scheduled to run every 10 minutes.", "info">>,
       <<"Dashboard available", "info">> >>

\* module top level after app.listen: lines 64-78 and 315-326
TopLevel(st, e, t) ==
    IF ConfigMissing(e)
    THEN [Record(st, << <<"Error: Missing required environment variables", "error">> >>, t)
            EXCEPT !.proc = "exited"]
    ELSE RunBotStart([st EXCEPT !.proc = "running", !.cronScheduled = TRUE], StartMessages, t)

----------------------------------------------------------------------------
(* Dashboard API *)

\* no request has been answered yet
NoResponse ==
    [served |-> FALSE, logs |-> <<>>, history |-> ArrayFile(<<>>),
     nextRun |-> NullTime, currentGeneration |-> ""]

ReadDashboardHistoryTorn(f) ==
    IF f.kind = "array" /\ Len(f.data) > 0
    THEN ArrayFile(SubSeq(f.data, 1, Len(f.data) - 1))
    ELSE ArrayFile(<<>>)

\* lines 45-50: let dashboardHistory = []; the file is parsed when it
\* exists, and a failed read or parse is swallowed by the empty catch
ReadDashboardHistory(f) ==
    CASE f.kind = "array"    -> ArrayFile(f.data)
      [] f.kind = "nonarray" -> NonArrayFile
      [] OTHER               -> ArrayFile(<<>>)

\* res.json({ logs, history, nextRun, currentGeneration })
ApiData(st) ==
    [served |-> TRUE, logs |-> st.logs, history |-> ReadDashboardHistory(st.dashboardFile),
     nextRun |-> st.nextRunTime, currentGeneration |-> st.currentGeneration]

----------------------------------------------------------------------------
(* Callbacks *)

\* The 'listening' event is emitted from process.nextTick, ahead of every
\* timer and I/O callback.
Ready == proc = "running" /\ listening

Startup ==
    /\ proc = "starting"
    /\ Commit(TopLevel(St, env, now))
    /\ lastTick' = now
    /\ UNCHANGED <<env, now, listening, response>>

\* app.listen callback, lines 60-62
ListenCallback ==
    /\ proc = "running"
    /\ ~listening
    /\ listening' = TRUE
    /\ Commit(Record(St, << <<"Dashboard running", "success">> >>, now))
    /\ UNCHANGED <<env, now, lastTick, response>>

\* the next minute that matches */10
NextBoundary(t) == ((t \div IntervalMinutes) + 1) * IntervalMinutes

TickSkipsWhenBusy(maxTicks, maxInFlight) ==
    /\ Ready
    /\ cronScheduled
    /\ NextBoundary(now) <= maxTicks * IntervalMinutes
    /\ now' = NextBoundary(now)
    /\ lastTick' = NextBoundary(now)
    /\ Commit(IF InFlight = {} THEN RunBotStart(St, <<>>, NextBoundary(now)) ELSE St)
    /\ UNCHANGED <<env, listening, response>>

\* cron.schedule('*/10 * * * *', () => { runBot(); }): the clock reaches the
\* next matching minute and the callback runs, whatever is in flight.
\* maxTicks and maxInFlight bound the run.
Tick(maxTicks, maxInFlight) ==
    /\ Ready
    /\ cronScheduled
    /\ NextBoundary(now) <= maxTicks * IntervalMinutes
    /\ Cardinality(InFlight) < maxInFlight
    /\ now' = NextBoundary(now)
    /\ lastTick' = NextBoundary(now)
    /\ Commit(RunBotStart(St, <<>>, NextBoundary(now)))
    /\ UNCHANGED <<env, listening, response>>

\* the generator call of cycle c settles
GeneratorSettles(c, resp, fatal) ==
    /\ Ready
    /\ cycles[c].pc = "fetching"
    /\ Commit(RunBotAfterFetch(FetchNewsResume(St, c, resp, now), c, fatal, now))
    /\ UNCHANGED <<env, now, lastTick, listening, response>>

\* a GET /api/data request is handled, lines 44-58
DashboardRead ==
    /\ Ready
    /\ response' = ApiData(St)
    /\ UNCHANGED <<env, proc, logs, nextRunTime, currentGeneration, headlineFile,
                   dashboardFile, cycles, now, lastTick, listening, cronScheduled,
                   nextId, recorded, allTitles, allItems, batchEnds>>

\* the mail dispatch of cycle c settles; the two history writes end in w1, w2
MailSettles(c, delivered, w1, w2) ==
    /\ Ready
    /\ cycles[c].pc = "sending"
    /\ Commit(RunBotAfterSend(SendEmailResume(St, c, delivered, now), c, w1, w2, now))
    /\ UNCHANGED <<env, now, lastTick, listening, response>>

----------------------------------------------------------------------------
(* The program with working storage *)

\* history left by earlier runs of the program: story i was good or shocking
PriorItem(i) == MkItem(IF i % 2 = 1 THEN "good" ELSE "shocking", i)

PriorItems(k) == [i \in 1..k |-> PriorItem(i)]

PriorTitles(k) == [i \in 1..k |-> PriorItem(i).title]

PriorHeadlineFile(k) ==
    IF k = 0 THEN MissingFile ELSE ArrayFile(Trim(PriorTitles(k), HeadlineCap))

PriorDashboardFile(k) ==
    IF k = 0 THEN MissingFile ELSE ArrayFile(Trim(PriorItems(k), DashboardCap))

\* how many stories earlier runs had persisted
PriorCounts == {0, 49}

InitProgram ==
    /\ env \in [RequiredVars -> BOOLEAN]
    /\ proc = "starting"
    /\ logs = <<>>
    /\ nextRunTime = NullTime
    /\ currentGeneration = ""
    /\ cycles = <<>>
    /\ now \in StartTimes
    /\ lastTick = now
    /\ listening = FALSE
    /\ cronScheduled = FALSE
    /\ recorded = <<>>
    /\ response = NoResponse

Init ==
    /\ InitProgram
    /\ \E k \in PriorCounts :
          /\ headlineFile = PriorHeadlineFile(k)
          /\ dashboardFile = PriorDashboardFile(k)
          /\ nextId = k + 1
          /\ allTitles = PriorTitles(k)
          /\ allItems = PriorItems(k)
          /\ batchEnds = <<k>>

Next ==
    \/ Startup
    \/ ListenCallback
    \/ Tick(MaxTicks, MaxInFlight)
    \/ \E c \in 1..Len(cycles), resp \in Responses, fatal \in BOOLEAN :
          GeneratorSettles(c, resp, fatal)
    \/ \E c \in 1..Len(cycles), delivered \in BOOLEAN :
          MailSettles(c, delivered, "ok", "ok")

Spec == Init /\ [][Next]_vars

----------------------------------------------------------------------------
(* saveHeadlines on its own, from empty stores *)

\* sizes of the batches handed to saveHeadlines
BatchSizes == {0, 1, 3, DashboardCap + 1, HeadlineCap + 1}

InitStore ==
    /\ env = [v \in RequiredVars |-> TRUE]
    /\ proc = "running"
    /\ logs = <<>>
    /\ nextRunTime = NullTime
    /\ currentGeneration = ""
    /\ cycles = <<>>
    /\ now = 0
    /\ lastTick = 0
    /\ listening = TRUE
    /\ cronScheduled = TRUE
    /\ recorded = <<>>
    /\ headlineFile = MissingFile
    /\ dashboardFile = MissingFile
    /\ nextId = 1
    /\ allTitles = <<>>
    /\ allItems = <<>>
    /\ batchEnds = <<0>>
    /\ response = NoResponse

\* saveHeadlines(newsItems) with the next n stories
SaveHeadlinesCall(n) ==
    /\ nextId + n - 1 <= MaxAppended
    /\ LET newsItems == [i \in 1..n |-> PriorItem(nextId + i - 1)]
           saved == SaveHeadlines(headlineFile, dashboardFile, newsItems, "ok", "ok")
       IN  /\ headlineFile' = saved.headline
           /\ dashboardFile' = saved.dashboard
           /\ logs' = LogAll(logs, Stamp(saved.msgs, now))
           /\ recorded' = recorded \o Stamp(saved.msgs, now)
           /\ allTitles' = allTitles \o [i \in 1..n |-> newsItems[i].title]
           /\ allItems' = allItems \o newsItems
    /\ nextId' = nextId + n
    /\ UNCHANGED <<env, proc, nextRunTime, currentGeneration, cycles, now, lastTick,
                   listening, cronScheduled, batchEnds, response>>

NextStore == \E n \in BatchSizes : SaveHeadlinesCall(n)

SpecStore == InitStore /\ [][NextStore]_vars

----------------------------------------------------------------------------
(* fetchNews on its own, from the generator's answer to its return *)

\* a cycle waits in fetchNews and the generator has answered with any text
InitExtract ==
    /\ env = [v \in RequiredVars |-> TRUE]
    /\ proc = "running"
    /\ logs = <<>>
    /\ nextRunTime = NullTime
    /\ currentGeneration \in Texts(MaxTextLen)
    /\ cycles = << Cycle("fetching", <<>>, "pending", <<>>, NoHtml, "none", FALSE, 0, 0) >>
    /\ now = 0
    /\ lastTick = 0
    /\ listening = TRUE
    /\ cronScheduled = TRUE
    /\ recorded = <<>>
    /\ headlineFile = MissingFile
    /\ dashboardFile = MissingFile
    /\ nextId = 1
    /\ allTitles = <<>>
    /\ allItems = <<>>
    /\ batchEnds = <<0>>
    /\ response = NoResponse

\* lines 174-200 for the content held in currentGeneration
ExtractCall ==
    /\ cycles[1].outcome = "pending"
    /\ LET r == ExtractNews(currentGeneration, nextId)
           msgs == Stamp(<< <<"AI Generation Complete.", "info">> >> \o r.msgs, now)
       IN  /\ cycles' = [cycles EXCEPT ![1].outcome = r.outcome, ![1].items = r.items]
           /\ logs' = LogAll(logs, msgs)
           /\ recorded' = recorded \o msgs
           /\ nextId' = nextId + Len(r.items)
    /\ UNCHANGED <<env, proc, nextRunTime, currentGeneration, headlineFile, dashboardFile,
                   now, lastTick, listening, cronScheduled, allTitles, allItems,
                   batchEnds, response>>

SpecExtract == InitExtract /\ [][ExtractCall]_vars

----------------------------------------------------------------------------
(* runBot from fetchNews' return to the mail dispatch, for any item list *)

\* what a record of the list can look like (every one an object)
RenderShapes == {"good", "shocking", "untitled", "neutral"}

ItemLists(maxLen) == UNION {{MkBatch(sh, 1) : sh \in [1..n -> RenderShapes]} : n \in 0..maxLen}

\* fetchNews has just returned the list
InitRender ==
    /\ env = [v \in RequiredVars |-> TRUE]
    /\ proc = "running"
    /\ logs = <<>>
    /\ nextRunTime = NullTime
    /\ currentGeneration = "news"
    /\ \E L \in ItemLists(MaxItems) :
          /\ cycles = << [Cycle("fetching", <<>>, "news", L, NoHtml, "none", FALSE, 0, 0)
                            EXCEPT !.pc = "fetched"] >>
          /\ nextId = Len(L) + 1
    /\ now = 0
    /\ lastTick = 0
    /\ listening = TRUE
    /\ cronScheduled = TRUE
    /\ recorded = <<>>
    /\ headlineFile = MissingFile
    /\ dashboardFile = MissingFile
    /\ allTitles = <<>>
    /\ allItems = <<>>
    /\ batchEnds = <<0>>
    /\ response = NoResponse

\* lines 300-302 (or 305-312 for an empty list)
RenderCall ==
    /\ cycles[1].pc = "fetched"
    /\ Commit(RunBotAfterFetch(St, 1, FALSE, now))
    /\ UNCHANGED <<env, now, lastTick, listening, response>>

SpecRender == InitRender /\ [][RenderCall]_vars

----------------------------------------------------------------------------
(* The program on storage whose writes can fail, the mail being accepted *)

NextFaults ==
    \/ Startup
    \/ ListenCallback
    \/ Tick(MaxTicks, MaxInFlight)
    \/ \E c \in 1..Len(cycles), resp \in PlainResponses : GeneratorSettles(c, resp, FALSE)
    \/ \E c \in 1..Len(cycles), w1 \in WriteOutcomes, w2 \in WriteOutcomes :
          MailSettles(c, TRUE, w1, w2)

SpecFaults == Init /\ [][NextFaults]_vars

----------------------------------------------------------------------------
(* The program while the generator is unreachable, one cycle at a time *)

NextLog ==
    \/ Startup
    \/ ListenCallback
    \/ Tick(MaxLogTicks, 1)
    \/ \E c \in 1..Len(cycles), resp \in DownResponses : GeneratorSettles(c, resp, FALSE)

SpecLog == Init /\ [][NextLog]_vars

----------------------------------------------------------------------------
(* The program started on history files in any condition *)

FileConditions(k) ==
    [headline : {MissingFile, UnparsableFile, NonArrayFile, PriorHeadlineFile(k)},
     dashboard : {MissingFile, UnparsableFile, NonArrayFile, PriorDashboardFile(k)}]

InitCorrupt ==
    /\ InitProgram
    /\ \E k \in PriorCounts \ {0} : \E f \in FileConditions(k) :
          /\ headlineFile = f.headline
          /\ dashboardFile = f.dashboard
          /\ nextId = k + 1
          /\ allTitles = PriorTitles(k)
          /\ allItems = PriorItems(k)
          /\ batchEnds = <<k>>

SpecCorrupt == InitCorrupt /\ [][Next]_vars

----------------------------------------------------------------------------
(* The program while its dashboard is polled *)

NextDashboard ==
    \/ Startup
    \/ ListenCallback
    \/ Tick(MaxTicks, MaxInFlight)
    \/ \E c \in 1..Len(cycles), resp \in PlainResponses : GeneratorSettles(c, resp, FALSE)
    \/ \E c \in 1..Len(cycles), delivered \in BOOLEAN : MailSettles(c, delivered, "ok", "ok")
    \/ DashboardRead

SpecDashboard == Init /\ [][NextDashboard]_vars

----------------------------------------------------------------------------
(* Properties *)

\* the last min(n, Len(s)) elements of s, in order
LastN(s, n) ==
    LET k == IF Len(s) < n THEN Len(s) ELSE n
    IN  [i \in 1..k |-> s[Len(s) - k + i]]

IsPrefix(s, t) == Len(s) <= Len(t) /\ \A i \in 1..Len(s) : s[i] = t[i]

Ended(cy) == cy.pc \in {"done", "crashed"}

\* the titles of L as a JSON file holds them
PersistedTitles(L) == [i \in 1..Len(L) |-> IF L[i].title = Undefined THEN JsonNull ELSE L[i].title]

\* C1: from empty stores, after any number of saveHeadlines calls with
\* batches of any size, the persisted headline sequence has at most 50
\* entries and is the last min(50, n) of all the titles appended, in order.
C1_HeadlineCapFifo ==
    /\ headlineFile.kind \in {"missing", "array"}
    /\ headlineFile.kind = "missing" => allTitles = <<>>
    /\ Len(headlineFile.data) <= HeadlineCap
    /\ headlineFile.data = LastN(allTitles, HeadlineCap)

\* more than 50 titles were appended and the oldest ones are gone
C1_Witness ==
    /\ Len(allTitles) > HeadlineCap
    /\ Len(headlineFile.data) = HeadlineCap
    /\ headlineFile.data[1] = allTitles[Len(allTitles) - HeadlineCap + 1]
    /\ headlineFile.data[1] # allTitles[1]

\* C2: from empty stores, after any number of saveHeadlines calls, the
\* persisted digest sequence has at most 20 entries and is the last
\* min(20, n) of all the items appended, in order.
C2_DigestCapFifo ==
    /\ dashboardFile.kind \in {"missing", "array"}
    /\ dashboardFile.kind = "missing" => allItems = <<>>
    /\ Len(dashboardFile.data) <= DashboardCap
    /\ dashboardFile.data = LastN(allItems, DashboardCap)

\* more than 20 items were appended, fewer than 50, and the oldest are gone
C2_Witness ==
    /\ Len(allItems) > DashboardCap
    /\ Len(allItems) < HeadlineCap
    /\ Len(dashboardFile.data) = DashboardCap
    /\ dashboardFile.data[1] = allItems[Len(allItems) - DashboardCap + 1]
    /\ dashboardFile.data[1] # allItems[1]

\* C3: a cycle whose generator call fails (network error, non-2xx status,
\* no choices) changes neither history file, sends no mail, and ends by
\* setting the next-run time to the current time plus the interval.
C3_GeneratorFailure ==
    /\ [](\A c \in 1..Len(cycles) :
            cycles[c].outcome = "callerror" =>
                /\ cycles[c].pc = "done"
                /\ cycles[c].mail = "none"
                /\ ~cycles[c].persisted)
    /\ [][\A c \in 1..Len(cycles) :
            (cycles[c].pc = "fetching" /\ cycles'[c].outcome = "callerror") =>
                /\ headlineFile' = headlineFile
                /\ dashboardFile' = dashboardFile
                /\ cycles'[c].pc = "done"
                /\ nextRunTime' = now' + IntervalMinutes]_vars

\* a cycle failed at the generator call while history existed and an earlier
\* cycle had left another next-run time
C3_Witness ==
    \E c \in 1..Len(cycles) :
        /\ cycles[c].outcome = "callerror"
        /\ cycles[c].pc = "done"
        /\ headlineFile.kind = "array"
        /\ c > 1
        /\ nextRunTime = now + IntervalMinutes

Skipped(cy) == cy.outcome = "extracterror" \/ (cy.outcome = "news" /\ cy.items = <<>>)

\* C4: a cycle whose extraction fails or yields an empty news sequence
\* renders nothing, sends no mail, changes neither history file, adds only
\* log entries, and still sets the next-run time.
C4_SkipOnNoNews ==
    /\ [](\A c \in 1..Len(cycles) :
            Skipped(cycles[c]) =>
                /\ cycles[c].pc = "done"
                /\ cycles[c].mail = "none"
                /\ cycles[c].html = NoHtml
                /\ ~cycles[c].persisted)
    /\ [][\A c \in 1..Len(cycles) :
            (cycles[c].pc = "fetching" /\ Skipped(cycles'[c])) =>
                /\ headlineFile' = headlineFile
                /\ dashboardFile' = dashboardFile
                /\ allTitles' = allTitles
                /\ allItems' = allItems
                /\ IsPrefix(recorded, recorded')
                /\ Len(recorded') > Len(recorded)
                /\ cycles'[c].pc = "done"
                /\ nextRunTime' = now' + IntervalMinutes]_vars

\* one cycle ended on an extraction failure and another on an empty list
C4_Witness ==
    \E c, d \in 1..Len(cycles) :
        /\ cycles[c].outcome = "extracterror"
        /\ cycles[d].outcome = "news"
        /\ cycles[d].items = <<>>
        /\ cycles[c].pc = "done"
        /\ cycles[d].pc = "done"

\* C5: every cycle that extracted at least one item appends to both history
\* stores, after its mail dispatch attempt has settled either way; a cycle
\* that extracted nothing changes neither store.
C5_PersistAfterDispatch ==
    [][\A c \in 1..Len(cycles) :
          (~Ended(cycles[c]) /\ Ended(cycles'[c])) =>
              IF cycles'[c].outcome = "news" /\ cycles'[c].items # <<>>
              THEN /\ cycles'[c].mail \in {"delivered", "failed"}
                   /\ headlineFile' # headlineFile
                   /\ dashboardFile' # dashboardFile
              ELSE /\ headlineFile' = headlineFile
                   /\ dashboardFile' = dashboardFile]_vars

\* C6: a cycle that extracted a non-empty list L leaves the headline store
\* as its old content followed by the titles of L, cut to the last 50, and
\* the digest store as its old content followed by L, cut to the last 20.
C6_PersistsExactlyTheBatch ==
    [][\A c \in 1..Len(cycles) :
          (~Ended(cycles[c]) /\ Ended(cycles'[c])
                /\ cycles'[c].outcome = "news" /\ cycles'[c].items # <<>>) =>
              /\ headlineFile'.data =
                    LastN(headlineFile.data \o PersistedTitles(cycles'[c].items), HeadlineCap)
              /\ dashboardFile'.data =
                    LastN(dashboardFile.data \o cycles'[c].items, DashboardCap)]_vars

\* C7: whatever the generator, extraction, mail dispatch and persistence
\* do, a cycle ends by setting the next-run time and the process keeps
\* running: no cycle is left without finishing and no started process ends.
C7_NoErrorStopsCycles ==
    /\ \A c \in 1..Len(cycles) : cycles[c].pc # "crashed"
    /\ cycles # <<>> => proc = "running"

\* C8: when a cycle that extracted items reaches persistence and a history
\* file is missing or unparsable, that store afterwards holds exactly the
\* cycle's entries (cut to its cap), and a readable store is appended to.
C8_ReadErrorMeansEmpty ==
    [][\A c \in 1..Len(cycles) :
          (cycles[c].pc = "sending" /\ cycles'[c].pc = "done") =>
              LET L == cycles[c].items
              IN  /\ headlineFile.kind \in {"missing", "unparsable"} =>
                        headlineFile' = ArrayFile(LastN(PersistedTitles(L), HeadlineCap))
                  /\ dashboardFile.kind \in {"missing", "unparsable"} =>
                        dashboardFile' = ArrayFile(LastN(L, DashboardCap))
                  /\ headlineFile.kind = "array" =>
                        headlineFile' = ArrayFile(LastN(headlineFile.data \o PersistedTitles(L),
                                                        HeadlineCap))
                  /\ dashboardFile.kind = "array" =>
                        dashboardFile' = ArrayFile(LastN(dashboardFile.data \o L,
                                                         DashboardCap))]_vars

\* C9: with a required configuration value absent the process only logs
\* the error and exits: it never runs, registers no scheduler, starts no
\* cycle, and writes no history.
C9_MissingConfigIsFatal ==
    (\E v \in RequiredVars : ~env[v]) =>
        /\ proc \in {"starting", "exited"}
        /\ ~cronScheduled
        /\ ~listening
        /\ cycles = <<>>
        /\ nextRunTime = NullTime
        /\ currentGeneration = ""
        /\ headlineFile = PriorHeadlineFile(Len(allTitles))
        /\ dashboardFile = PriorDashboardFile(Len(allItems))
        /\ nextId = Len(allTitles) + 1
        /\ proc = "exited" => (Len(recorded) = 1 /\ recorded[1].type = "error")

\* only the recipient is missing and the process has exited
C9_Witness ==
    /\ ~env["RECEIVER_EMAIL"]
    /\ \A v \in RequiredVars \ {"RECEIVER_EMAIL"} : env[v]
    /\ proc = "exited"
    /\ Len(logs) = 1

\* C10: the log buffer never holds more than 100 entries and always equals
\* the most recent min(100, n) entries recorded, oldest first.
C10_LogBufferCap ==
    /\ Len(logs) <= LogCap
    /\ logs = LastN(recorded, LogCap)

\* more than 100 entries were recorded and the oldest were evicted
C10_Witness ==
    /\ Len(recorded) > LogCap + 1
    /\ Len(logs) = LogCap
    /\ logs[1] = recorded[Len(recorded) - LogCap + 1]
    /\ logs[1] # recorded[1]

\* C11: a GET /api/data handled at any point, cycles in flight or not, returns
\* as `history` the digest store exactly as it stood at the start or right
\* after some cycle's append (the last 20 of the items up to a batch
\* boundary), never a partly appended batch.
C11_ReadSeesWholeAppends ==
    response.served =>
        /\ response.history.kind = "array"
        /\ \E b \in 1..Len(batchEnds) :
              response.history.data =
                  JsonRoundTripItems(LastN(SubSeq(allItems, 1, batchEnds[b]), DashboardCap))

\* a read answered while two cycles are in flight and one has already appended
C11_Witness ==
    /\ response.served
    /\ Len(batchEnds) >= 2
    /\ response.history.data = JsonRoundTripItems(LastN(SubSeq(allItems, 1, batchEnds[2]), DashboardCap))
    /\ response.logs = logs
    /\ Cardinality(InFlight) >= 1
    /\ \E c \in 1..Len(cycles) : cycles[c].persisted

\* C12: when every cycle finishes in less than the 10-minute interval, no
\* cycle, the one started at process startup included, is still in flight
\* when the next one starts.
C12_OneCycleAtATime ==
    (/\ InFlight = {}
     /\ \A c \in 1..Len(cycles) : cycles[c].endedAt - cycles[c].startedAt < IntervalMinutes)
        => \A c \in 1..Len(cycles) : cycles[c].busyAtStart = 0

\* C13: the scheduler does not skip a tick because a cycle is in flight:
\* every 10-minute boundary the clock has passed since startup started one
\* more cycle, at that boundary, so the number of cycles is one (the startup
\* call) plus the number of boundaries passed.
C13_NoTickDropped ==
    Len(cycles) > 0 =>
        /\ Len(cycles) = 1 + (now \div IntervalMinutes) - (cycles[1].startedAt \div IntervalMinutes)
        /\ \A c \in 2..Len(cycles) :
              cycles[c].startedAt =
                  ((cycles[1].startedAt \div IntervalMinutes) + c - 1) * IntervalMinutes

\* a cycle has outlived the interval and the tick started a second one beside it
C13_Witness ==
    /\ Cardinality(InFlight) = 2
    /\ 1 \in InFlight
    /\ now - cycles[1].startedAt >= IntervalMinutes
    /\ cycles[2].busyAtStart = 1

\* C14: whenever no cycle is in flight and nextRunTime has been set, the
\* next cron firing happens exactly at nextRunTime.
C14_NextRunIsNextTick ==
    (proc = "running" /\ InFlight = {} /\ nextRunTime # NullTime)
        => nextRunTime = NextBoundary(now)

\* a sequence of titles as a JSON file holds it
AsStored(ts) == [i \in 1..Len(ts) |-> IF ts[i] = Undefined THEN JsonNull ELSE ts[i]]

\* C15: the exclusion hint of a cycle is fixed when the cycle starts and is
\* exactly the headline history on disk at that moment; when no earlier
\* cycle is still in flight, that is the last 50 of all the titles persisted
\* so far.
C15_HintIsPersistedHistory ==
    [][/\ \A c \in 1..Len(cycles) : cycles'[c].hint = cycles[c].hint
       /\ Len(cycles') > Len(cycles) =>
             LET hint == cycles'[Len(cycles')].hint
             IN  /\ hint = headlineFile.data
                 /\ InFlight = {} => hint = LastN(AsStored(allTitles), HeadlineCap)]_vars

\* the second cycle started after the first had persisted its titles, and its
\* hint is 50 long and ends with them
C15_Witness ==
    /\ Len(cycles) >= 2
    /\ cycles[2].busyAtStart = 0
    /\ cycles[1].persisted
    /\ Len(cycles[1].items) > 0
    /\ Len(cycles[2].hint) = HeadlineCap
    /\ LastN(cycles[2].hint, Len(cycles[1].items)) = PersistedTitles(cycles[1].items)

\* the text with the fence delimiters taken out
Unfenced(text) == SelectSeq(text, LAMBDA ch : ch \notin {"fence_json", "fence"})

\* the text from the first { to the last } inclusive, <<>> when there is none
BraceSlice(text) ==
    LET opens == {i \in 1..Len(text) : text[i] = "{"}
        closes == {i \in 1..Len(text) : text[i] = "}"}
        first == CHOOSE i \in opens : \A j \in opens : i <= j
        last == CHOOSE i \in closes : \A j \in closes : j <= i
    IN  IF opens = {} \/ closes = {} THEN <<>>
        ELSE IF first > last THEN <<>>
        ELSE SubSeq(text, first, last)

\* C16: once fetchNews has gone through the extraction, it has returned the
\* value of `news` exactly when the fence-free text from the first { to the
\* last } parses as an object whose `news` is an array; otherwise it has
\* returned null. Either way the cycle goes on (nothing is thrown to runBot).
C16_ExtractionOutcome ==
    cycles[1].outcome # "pending" =>
        LET slice == BraceSlice(Unfenced(currentGeneration))
            parsed == JsonParse(slice, 1)
        IN  /\ cycles[1].pc # "crashed"
            /\ IF slice # <<>> /\ parsed.kind = "object" /\ parsed.news = "array"
               THEN cycles[1].outcome = "news" /\ cycles[1].items = parsed.value
               ELSE cycles[1].outcome = "extracterror" /\ cycles[1].items = <<>>

\* words, then a fenced object with a news array: the array was returned
C16_Witness ==
    /\ currentGeneration = <<"prose", "{", "news_array", "}">>
    /\ cycles[1].outcome = "news"
    /\ Len(cycles[1].items) = 1

\* the positions of the items of a given type
OfType(items, type) == {i \in 1..Len(items) : items[i].type = type}

\* the cards are, in order, the cards of the items at the positions P
CardsOfExactly(cards, items, P, color) ==
    /\ Len(cards) = Cardinality(P)
    /\ \E f \in [1..Len(cards) -> P] :
          /\ \A k \in 1..Len(cards) : \A m \in 1..Len(cards) : k < m => f[k] < f[m]
          /\ \A k \in 1..Len(cards) :
                cards[k] = [title |-> items[f[k]].title, summary |-> items[f[k]].summary,
                            color |-> color]

\* C17: the document rendered for a list of item records has the good section
\* exactly when some item has type good and the shocking section exactly when
\* some item has type shocking; the cards of each section are the items of
\* that type, each once, in input order.
C17_SectionsPartitionItems ==
    (Len(cycles) = 1 /\ cycles[1].pc = "sending") =>
        LET items == cycles[1].items
            doc == cycles[1].html
        IN  /\ doc.ok
            /\ doc.goodSection <=> OfType(items, "good") # {}
            /\ doc.shockingSection <=> OfType(items, "shocking") # {}
            /\ CardsOfExactly(doc.good, items, OfType(items, "good"), "#27ae60")
            /\ CardsOfExactly(doc.shocking, items, OfType(items, "shocking"), "#c0392b")

\* a list with two good items around one of another type and no shocking
\* item: the document has the good section with two cards and no shocking
\* section
C17_Witness ==
    /\ Len(cycles) = 1
    /\ cycles[1].pc = "sending"
    /\ Len(cycles[1].items) = 3
    /\ cycles[1].items[2].type = "neutral"
    /\ cycles[1].html.goodSection
    /\ Len(cycles[1].html.good) = 2
    /\ ~cycles[1].html.shockingSection

\* the entries log() received during the step
Logged == SubSeq(recorded', Len(recorded) + 1, Len(recorded'))

HasMessage(entries, message) == \E i \in 1..Len(entries) : entries[i].message = message

\* the two stores as the persistence step of cycle c leaves them when both
\* writes go through
AppendedHeadlines(c) ==
    ArrayFile(LastN(headlineFile.data \o PersistedTitles(cycles[c].items), HeadlineCap))

AppendedDigests(c) ==
    ArrayFile(LastN(dashboardFile.data \o cycles[c].items, DashboardCap))

\* C18: in the step that takes a cycle through its persistence, a store that
\* does not end up appended means 'Error saving history' was logged, once;
\* each store is left appended, untouched or cut short by its single write;
\* and the cycle still sets nextRunTime, ends as done and stays done.
C18_WriteErrorDoesNotAbort ==
    [][\A c \in 1..Len(cycles) :
          /\ cycles[c].pc = "sending" /\ cycles'[c].pc # "sending" =>
                /\ cycles'[c].pc = "done"
                /\ cycles'[c].persisted
                /\ nextRunTime' = now + IntervalMinutes
                /\ proc' = "running"
                /\ headlineFile' \in {AppendedHeadlines(c), headlineFile, UnparsableFile}
                /\ dashboardFile' \in {AppendedDigests(c), dashboardFile, UnparsableFile}
                /\ (headlineFile' # AppendedHeadlines(c) \/ dashboardFile' # AppendedDigests(c))
                      => HasMessage(Logged, "Error saving history")
                /\ Cardinality({i \in 1..Len(Logged) :
                                   Logged[i].message = "Error saving history"}) <= 1
                /\ HasMessage(Logged, "Routine finished. Waiting for next schedule...")
          /\ cycles[c].pc = "done" => cycles'[c] = cycles[c]]_vars

\* a cycle whose headline write failed part-way has ended as done with the
\* error logged and nextRunTime set
C18_Witness ==
    \E c \in 1..Len(cycles) :
        /\ cycles[c].pc = "done"
        /\ cycles[c].persisted
        /\ Len(cycles[c].items) > 0
        /\ headlineFile = UnparsableFile
        /\ HasMessage(recorded, "Error saving history")
        /\ nextRunTime = cycles[c].endedAt + IntervalMinutes

\* C19: whatever the interleaving of the cycles, the batches appended so far
\* are the item lists of the cycles that went through their persistence
\* step, one batch per cycle, and the headline store holds the last 50
\* titles and the digest store the last 20 items of those batches
\* concatenated in the order the steps ran (after what earlier runs left).
C19_NoLostUpdate ==
    /\ Len(batchEnds) - 1 = Cardinality({c \in 1..Len(cycles) : cycles[c].persisted})
    /\ \A b \in 2..Len(batchEnds) :
          \E c \in 1..Len(cycles) :
              /\ cycles[c].persisted
              /\ SubSeq(allItems, batchEnds[b - 1] + 1, batchEnds[b]) = cycles[c].items
    /\ AsStored(allTitles) = PersistedTitles(allItems)
    /\ headlineFile.data = LastN(PersistedTitles(allItems), HeadlineCap)
    /\ dashboardFile.data = LastN(allItems, DashboardCap)

\* two cycles overlapped and the one started second persisted first: the
\* store ends with the first cycle's batch, preceded by the second's
C19_Witness ==
    /\ Len(cycles) = 2
    /\ cycles[2].busyAtStart = 1
    /\ cycles[1].persisted /\ cycles[2].persisted
    /\ Len(cycles[1].items) > 0 /\ Len(cycles[2].items) > 0
    /\ LastN(allItems, Len(cycles[1].items)) = cycles[1].items
    /\ LastN(headlineFile.data, Len(cycles[1].items) + Len(cycles[2].items))
          = PersistedTitles(cycles[2].items \o cycles[1].items)

\* C20: in the step that ends a cycle, the headline store is left appended
\* with the cycle's titles exactly when the digest store is left appended
\* with its items, and 'Saved new headlines to history.' is logged only when
\* both are.
C20_StoresInStep ==
    [][\A c \in 1..Len(cycles) :
          (~Ended(cycles[c]) /\ Ended(cycles'[c])) =>
              /\ (cycles'[c].persisted /\ headlineFile' = AppendedHeadlines(c))
                    <=> (cycles'[c].persisted /\ dashboardFile' = AppendedDigests(c))
              /\ HasMessage(Logged, "Saved new headlines to history.")
                    => /\ headlineFile' = AppendedHeadlines(c)
                       /\ dashboardFile' = AppendedDigests(c)]_vars

====
